---------------------------- MODULE Spec2Model ----------------------------
(***************************************************************************)
(* The dependency-tree rewriting pipeline of tetre:                        *)
(*   src/internallib/graph_processing.py  Growth, Reduction, Process       *)
(*   src/lib/tree_utils.py                find_in_spacynode, merge_nodes   *)
(*                                                                         *)
(* The tree is an arena: node ids 1..n, each node a record with the        *)
(* TreeNode attributes; children are sequences of ids, head is an id.      *)
(* Python object identity is id equality; 0 stands for None / False.       *)
(***************************************************************************)
EXTENDS Integers, Sequences, FiniteSets, TLC

VARIABLES
    nodes,              \* the arena: id -> TreeNode record
    focus,              \* spacy_tree: the focus token the rules are applied to
    node_set,           \* the relation-label collection (a multiset: label -> count)
    pc,                 \* the next step of the run
    applied_growth,     \* firing log of Growth.apply
    applied_reduction,  \* firing log of Reduction.apply
    applied,            \* the log applyAll returns
    returned,           \* the label collections the apply calls returned, in order
    pass,               \* number of Reduction.apply runs completed
    before,             \* history: tree and labels as the last rule found them
    history,            \* history: the rules run, with what each reported
    probe               \* argument and result of a primitive applied on its own

vars == <<nodes, focus, node_set, pc, applied_growth, applied_reduction,
          applied, returned, pass, before, history, probe>>

-----------------------------------------------------------------------------
(* Bounds of the model *)

\* The most words of a parsed sentence.
MaxNodes == 4

\* The longest label collection a Reduction run of its own starts from.
MaxLabels == 2

\* The most nodes handed to merge_nodes on its own.
MaxMembers == 3

-----------------------------------------------------------------------------
(* Strings.  Python's `a in b` on two strings is a substring test; TLC has  *)
(* no access to the characters of a string, so Chars spells the vocabulary. *)

Chars(s) ==
    CASE s = ""          -> << >>
      [] s = " "         -> <<" ">>
      [] s = "ROOT"      -> <<"R","O","O","T">>
      [] s = "nsubj"     -> <<"n","s","u","b","j">>
      [] s = "csubj"     -> <<"c","s","u","b","j">>
      [] s = "nsubjpass" -> <<"n","s","u","b","j","p","a","s","s">>
      [] s = "csubjpass" -> <<"c","s","u","b","j","p","a","s","s">>
      [] s = "subj"      -> <<"s","u","b","j">>
      [] s = "dobj"      -> <<"d","o","b","j">>
      [] s = "iobj"      -> <<"i","o","b","j">>
      [] s = "pobj"      -> <<"p","o","b","j">>
      [] s = "obj"       -> <<"o","b","j">>
      [] s = "relcl"     -> <<"r","e","l","c","l">>
      [] s = "ccomp"     -> <<"c","c","o","m","p">>
      [] s = "xcomp"     -> <<"x","c","o","m","p">>
      [] s = "conj"      -> <<"c","o","n","j">>
      [] s = "cc"        -> <<"c","c">>
      [] s = "prep"      -> <<"p","r","e","p">>
      [] s = "acl"       -> <<"a","c","l">>
      [] s = "advcl"     -> <<"a","d","v","c","l">>
      [] s = "mod"       -> <<"m","o","d">>
      [] s = "amod"      -> <<"a","m","o","d">>
      [] s = "punct"     -> <<"p","u","n","c","t">>
      [] s = "mark"      -> <<"m","a","r","k">>
      [] s = "meta"      -> <<"m","e","t","a">>
      [] s = "det"       -> <<"d","e","t">>

\* Python: a in b, for strings a and b.
StrIn(a, b) ==
    LET ca == Chars(a)
        cb == Chars(b)
    IN  \E i \in 0..(Len(cb) - Len(ca)) : SubSeq(cb, i + 1, i + Len(ca)) = ca

-----------------------------------------------------------------------------
(* Sequences and multisets *)

\* Python: list.pop(i), i counted from 0, on a list that holds position i.
Pop(s, i) == SubSeq(s, 1, i) \o SubSeq(s, i + 2, Len(s))

Range(s) == {s[i] : i \in DOMAIN s}

\* The ascending sequence of a finite set of integers.
RECURSIVE SortedSeq(_)
SortedSeq(S) ==
    IF S = {} THEN << >>
    ELSE LET m == CHOOSE x \in S : \A y \in S : x <= y
         IN  <<m>> \o SortedSeq(S \ {m})

EmptyBag == [x \in {} |-> 0]

\* list.append(x) on the label collection.
BagAppend(b, x) ==
    [y \in DOMAIN b \cup {x} |->
        IF y = x THEN (IF x \in DOMAIN b THEN b[x] + 1 ELSE 1) ELSE b[y]]

\* set(S) as a label collection.
BagOfSet(S) == [x \in S |-> 1]

\* [f(x) for x in b], f given as a function on labels.
RECURSIVE BagMapAdd(_, _, _)
BagMapAdd(b, f, todo) ==
    IF todo = {} THEN EmptyBag
    ELSE LET x == CHOOSE y \in todo : TRUE
             rest == BagMapAdd(b, f, todo \ {x})
             y == f[x]
         IN  [z \in DOMAIN rest \cup {y} |->
                 IF z = y THEN (IF y \in DOMAIN rest THEN rest[y] ELSE 0) + b[x]
                 ELSE rest[z]]

BagMap(b, f) == BagMapAdd(b, f, DOMAIN b)

RECURSIVE BagOfSeq(_)
BagOfSeq(s) ==
    IF s = << >> THEN EmptyBag ELSE BagAppend(BagOfSeq(Tail(s)), Head(s))

-----------------------------------------------------------------------------
(* The tree node model *)

NotFound == 0

\* TreeNode(dep_, pos_, orth_, idx, n_lefts, n_rights): a node with no
\* children, no head and the suppressed flag down.
TreeNode(dep, pos, orth, idx, n_lefts, n_rights) ==
    [dep_ |-> dep, pos_ |-> pos, orth_ |-> orth, idx |-> idx,
     n_lefts |-> n_lefts, n_rights |-> n_rights,
     children |-> << >>, head |-> 0, nofollow |-> FALSE]

\* find_in_spacynode's test of one node against the two filters.
FindMatches(T, node, dep, orth) ==
    IF dep /= "" /\ orth /= "" THEN StrIn(dep, T[node].dep_) /\ orth = T[node].orth_
    ELSE IF orth /= "" THEN orth = T[node].orth_
    ELSE IF dep /= "" THEN StrIn(dep, T[node].dep_)
    ELSE FALSE

RECURSIVE find_in_spacynode(_, _, _, _)
RECURSIVE FindInChildren(_, _, _, _, _)

\* find_in_spacynode with the node tested after its children.
find_children_first(T, node, dep, orth) ==
    LET result == FindInChildren(T, T[node].children, 1, dep, orth)
    IN  IF result /= NotFound THEN result
        ELSE IF FindMatches(T, node, dep, orth) THEN node
        ELSE NotFound

\* The loop over node.children: the first result that is not False.
FindInChildren(T, ch, i, dep, orth) ==
    IF i > Len(ch) THEN NotFound
    ELSE LET result == find_in_spacynode(T, ch[i], dep, orth)
         IN  IF result /= NotFound THEN result
             ELSE FindInChildren(T, ch, i + 1, dep, orth)

find_in_spacynode(T, node, dep, orth) ==
    IF FindMatches(T, node, dep, orth) THEN node
    ELSE FindInChildren(T, T[node].children, 1, dep, orth)

RECURSIVE SumField(_, _, _)
SumField(T, members, field) ==
    IF members = << >> THEN 0
    ELSE T[Head(members)][field] + SumField(T, Tail(members), field)

\* The id a node created now gets in the arena.
NewId(T) == Cardinality(DOMAIN T) + 1

\* MergeParent with the average of the indices rounded up.
MergeParent_RoundUp(T, members) ==
    TreeNode(T[members[1]].dep_, "", "",
             (SumField(T, members, "idx") + Len(members) - 1) \div Len(members),
             SumField(T, members, "n_lefts"),
             SumField(T, members, "n_rights"))

\* The synthetic parent merge_nodes builds when `under` is False.
MergeParent(T, members) ==
    TreeNode(T[members[1]].dep_, "", "",
             SumField(T, members, "idx") \div Len(members),
             SumField(T, members, "n_lefts"),
             SumField(T, members, "n_rights"))

\* merge_nodes(nodes): the arena after the call and the id of the parent returned.
merge_nodes(T, members) ==
    LET under == NewId(T)
        T1 == [n \in DOMAIN T \cup {under} |->
                  IF n = under
                  THEN [MergeParent(T, members) EXCEPT !.children = members]
                  ELSE IF n \in Range(members) THEN [T[n] EXCEPT !.head = under]
                  ELSE T[n]]
    IN  [tree |-> T1, under |-> under]

-----------------------------------------------------------------------------
(* Growth *)

subs == {"nsubj", "csubj", "nsubjpass", "csubjpass"}
objs == {"dobj", "iobj", "pobj"}
move_if == << <<"xcomp", "obj">>, <<"ccomp", "obj">>,
              <<"xcomp", "subj">>, <<"ccomp", "subj">> >>
downwards_subj == "nsubj"

\* The parts of speech rule (a) keeps as a subject.
OpenClass == {"NOUN", "PROPN", "VERB", "NUM", "PRON", "X"}

\* What a rule hands back: the tree, the label collection, the flag it
\* reports, and whether it raised instead of returning.
RuleResult(T, ns, isApplied, raised) ==
    [tree |-> T, node_set |-> ns, isApplied |-> isApplied, raised |-> raised]

\* Rule (a), the loop over children_list = token.children[:]: the label is
\* read from the copy, the part of speech from the live list, and the live
\* list shrinks under the loop.
RECURSIVE ReplaceSubjScan(_, _, _, _, _, _)
ReplaceSubjScan(T, token, children_list, i, hasSubj, anyChanging) ==
    IF i > Len(children_list)
    THEN [tree |-> T, hasSubj |-> hasSubj, anyChanging |-> anyChanging, raised |-> FALSE]
    ELSE IF T[children_list[i]].dep_ \in subs
    THEN IF i > Len(T[token].children)
         THEN [tree |-> T, hasSubj |-> TRUE, anyChanging |-> anyChanging, raised |-> TRUE]
         ELSE IF T[T[token].children[i]].pos_ \notin OpenClass
         THEN ReplaceSubjScan([T EXCEPT ![token].children = Pop(@, i - 1)],
                              token, children_list, i + 1, TRUE, TRUE)
         ELSE ReplaceSubjScan(T, token, children_list, i + 1, TRUE, anyChanging)
    ELSE ReplaceSubjScan(T, token, children_list, i + 1, hasSubj, anyChanging)

\* ReplaceSubjDetach that records the label and leaves token where it is.
ReplaceSubjDetach_Keep(T, ns, token, token_head, children_list, i) ==
    [tree |-> T,
     node_set |-> IF \E k \in DOMAIN children_list : T[children_list[k]].idx = T[token].idx
                  THEN BagAppend(ns, downwards_subj) ELSE ns,
     raised |-> FALSE]

\* Rule (a), the loop over children_list = token_head.children[:] that takes
\* token out of its head's children and records the new label.
RECURSIVE ReplaceSubjDetach(_, _, _, _, _, _)
ReplaceSubjDetach(T, ns, token, token_head, children_list, i) ==
    IF i > Len(children_list) THEN [tree |-> T, node_set |-> ns, raised |-> FALSE]
    ELSE IF T[children_list[i]].idx = T[token].idx
    THEN IF i > Len(T[token_head].children)
         THEN [tree |-> T, node_set |-> ns, raised |-> TRUE]
         ELSE ReplaceSubjDetach([T EXCEPT ![token_head].children = Pop(@, i - 1)],
                                BagAppend(ns, downwards_subj),
                                token, token_head, children_list, i + 1)
    ELSE ReplaceSubjDetach(T, ns, token, token_head, children_list, i + 1)

\* Rule (a), the end of the inversion: relabel the head, append it to token's
\* children, point its head at token.
ReplaceSubjAttach(T, token, token_head) ==
    LET T1 == [T EXCEPT ![token_head].dep_ = downwards_subj]
        T2 == [T1 EXCEPT ![token].children = Append(@, token_head)]
    IN  [T2 EXCEPT ![token_head].head = token]

replace_subj_if_dep_is_relcl_or_ccomp(T, ns, token) ==
    IF T[token].dep_ \in {"relcl", "ccomp"} /\ T[token].head /= token
    THEN LET token_head == T[token].head
             scan == ReplaceSubjScan(T, token, T[token].children, 1, FALSE, FALSE)
             isChanging == scan.anyChanging \/ ~scan.hasSubj
         IN  IF scan.raised THEN RuleResult(scan.tree, ns, FALSE, TRUE)
             ELSE IF isChanging
             THEN LET det == ReplaceSubjDetach(scan.tree, ns, token, token_head,
                                               scan.tree[token_head].children, 1)
                  IN  IF det.raised THEN RuleResult(det.tree, det.node_set, TRUE, TRUE)
                      ELSE RuleResult(ReplaceSubjAttach(det.tree, token, token_head),
                                      det.node_set, TRUE, FALSE)
             ELSE RuleResult(scan.tree, ns, FALSE, FALSE)
    ELSE RuleResult(T, ns, FALSE, FALSE)

\* ConjCond without the search for the focus below the candidate.
ConjCond_NoSubChildTest(T, token, token_head, i) ==
    LET ch == T[token_head].children
        c == ch[i]
        isBut == \E j \in DOMAIN ch : StrIn(T[ch[j]].dep_, "cc") /\ T[ch[j]].orth_ = "but"
        otherConjExists == \E j \in DOMAIN ch : StrIn(T[ch[j]].dep_, "conj") /\ ch[j] /= token
        hasSubj == \E j \in DOMAIN ch : StrIn("subj", T[ch[j]].dep_)
        isOtherConj == T[c].dep_ = "conj" /\ c /= token
        isSubj == T[c].dep_ \in subs
        isObj == T[c].dep_ \in objs
    IN  [cond_subj |-> ~isBut /\ isSubj,
         cond_dobj |-> ~isBut /\ ~hasSubj /\ isObj,
         cond_conj_other |-> isBut /\ ~isSubj /\ otherConjExists /\ isOtherConj,
         cond_conj_same |-> isBut /\ ~otherConjExists /\ isSubj]

\* Rule (b), the four conditions on child i of the scanned head.
ConjCond(T, token, token_head, i) ==
    LET ch == T[token_head].children
        c == ch[i]
        isBut == \E j \in DOMAIN ch : StrIn(T[ch[j]].dep_, "cc") /\ T[ch[j]].orth_ = "but"
        otherConjExists == \E j \in DOMAIN ch : StrIn(T[ch[j]].dep_, "conj") /\ ch[j] /= token
        hasSubj == \E j \in DOMAIN ch : StrIn("subj", T[ch[j]].dep_)
        isOtherConj == T[c].dep_ = "conj" /\ c /= token
        isSubj == T[c].dep_ \in subs
        isObj == T[c].dep_ \in objs
        isSubChild == find_in_spacynode(T, c, T[token].dep_, T[token].orth_) /= NotFound
    IN  [cond_subj |-> ~isBut /\ isSubj,
         cond_dobj |-> ~isBut /\ ~hasSubj /\ isObj,
         cond_conj_other |-> isBut /\ ~isSubj /\ otherConjExists /\ isOtherConj /\ ~isSubChild,
         cond_conj_same |-> isBut /\ ~otherConjExists /\ isSubj]

ConjMatches(T, token, token_head, i) ==
    LET c == ConjCond(T, token, token_head, i)
    IN  c.cond_subj \/ c.cond_conj_other \/ c.cond_dobj \/ c.cond_conj_same

\* ConjPullDown that moves the candidate and never relabels it.
ConjPullDown_KeepLabel(T, token, token_head, i) ==
    LET cand == T[token_head].children[i]
        T2 == [T EXCEPT ![token].children = Append(@, cand)]
        T3 == [T2 EXCEPT ![cand].head = token]
    IN  [tree |-> [T3 EXCEPT ![token_head].children = Pop(@, i - 1)],
         label |-> T[cand].dep_]

\* Rule (b), the body of the matching branch: relabel, record, move.
ConjPullDown(T, token, token_head, i) ==
    LET c == ConjCond(T, token, token_head, i)
        cand == T[token_head].children[i]
        T1 == IF c.cond_dobj \/ c.cond_conj_other
              THEN [T EXCEPT ![cand].dep_ = downwards_subj] ELSE T
        T2 == [T1 EXCEPT ![token].children = Append(@, cand)]
        T3 == [T2 EXCEPT ![cand].head = token]
    IN  [tree |-> [T3 EXCEPT ![token_head].children = Pop(@, i - 1)],
         label |-> T1[cand].dep_]

\* ConjTrigger that does not look for a subject child of the focus.
ConjTrigger_NoSubjTest(T, token, token_head) ==
    /\ T[token_head].dep_ \in {"conj"}
    /\ T[token_head].head /= token_head

\* Rule (b), the condition of lines 141-143 under which the loop goes on.
ConjTrigger(T, token, token_head) ==
    /\ T[token_head].dep_ \in {"conj"}
    /\ T[token_head].head /= token_head
    /\ \A k \in DOMAIN T[token].children : T[T[token].children[k]].dep_ \notin subs

\* Rule (b), one turn of the loop whose condition holds: step up to the
\* head, pull down the first child of it that matches, if any.
ConjIteration(T, ns, token, token_head, isApplied) ==
    LET up == T[token_head].head
        hits == {i \in DOMAIN T[up].children : ConjMatches(T, token, up, i)}
    IN  IF hits = {}
        THEN [tree |-> T, node_set |-> ns, token_head |-> up, isApplied |-> isApplied]
        ELSE LET i == CHOOSE x \in hits : \A y \in hits : x <= y
                 pull == ConjPullDown(T, token, up, i)
             IN  [tree |-> pull.tree, node_set |-> BagAppend(ns, pull.label),
                  token_head |-> up, isApplied |-> TRUE]

\* Rule (b), the `while True` loop; token_head is the loop's variable.
RECURSIVE ConjWalk(_, _, _, _, _), ConjNext(_, _)
ConjWalk(T, ns, token, token_head, isApplied) ==
    IF ConjTrigger(T, token, token_head)
    THEN ConjNext(ConjIteration(T, ns, token, token_head, isApplied), token)
    ELSE RuleResult(T, ns, isApplied, FALSE)

\* The loop goes on from what the turn left behind.
ConjNext(turn, token) ==
    ConjWalk(turn.tree, turn.node_set, token, turn.token_head, turn.isApplied)

recurse_on_dep_conj_if_no_subj(T, ns, token) == ConjWalk(T, ns, token, token, FALSE)

\* rewrite_dp_tag: the canonical tag table.
rewrite_dp_tag(tag) ==
    IF tag \in subs THEN "subj"
    ELSE IF tag \in objs THEN "obj"
    ELSE tag

\* set([self.rewrite_dp_tag(node) for node in node_set])
RewriteAll(ns) == BagOfSet({rewrite_dp_tag(x) : x \in DOMAIN ns})

\* [target if node == replace else node for node in node_set]
Substitute(ns, replace, target) ==
    BagMap(ns, [x \in DOMAIN ns |-> IF x = replace THEN target ELSE x])

\* The positions of the children of node whose label contains `part`.
WithLabelPart(T, node, part) ==
    {i \in DOMAIN T[node].children : StrIn(part, T[T[node].children[i]].dep_)}

\* Rule (c), the loop over move_if; k is the position of the pair.
RECURSIVE MoveIfLoop(_, _, _, _, _)
MoveIfLoop(T, ns, token, k, isApplied) ==
    IF k > Len(move_if) THEN RuleResult(T, RewriteAll(ns), isApplied, FALSE)
    ELSE LET replace == move_if[k][1]
             target == move_if[k][2]
             is_obj == WithLabelPart(T, token, target) /= {}
             found == WithLabelPart(T, token, replace)
         IN  IF is_obj \/ found = {} THEN MoveIfLoop(T, ns, token, k + 1, isApplied)
             ELSE LET i == CHOOSE x \in found : \A y \in found : x <= y
                      child == T[token].children[i]
                  IN  MoveIfLoop([T EXCEPT ![child].dep_ = target],
                                 Substitute(ns, replace, target), token, k + 1, TRUE)

transform_xcomp_to_dobj_or_sub_if_doesnt_exists(T, ns, token) ==
    MoveIfLoop(T, ns, token, 1, FALSE)

\* Rule (d): is_obj is computed once, before any child is relabelled.
transform_prep_in_to_dobj(T, ns, token) ==
    LET target == "obj"
        replace == "prep"
        is_obj == WithLabelPart(T, token, target) /= {}
        hits == {T[token].children[i] : i \in
                   {j \in WithLabelPart(T, token, replace) :
                        T[T[token].children[j]].orth_ = "in"}}
    IN  IF is_obj \/ hits = {} THEN RuleResult(T, RewriteAll(ns), FALSE, FALSE)
        ELSE RuleResult([n \in DOMAIN T |->
                            IF n \in hits THEN [T[n] EXCEPT !.dep_ = target] ELSE T[n]],
                        RewriteAll(Substitute(ns, replace, target)), TRUE, FALSE)

bring_up == << <<"prep", "by", "prep">>, <<"prep", "to", "prep">>,
               <<"prep", "for", "prep">>, <<"prep", "with", "prep">>,
               <<"prep", "whereby", "prep">>, <<"relcl", "", "mod">>,
               <<"acl", "", "mod">>, <<"advcl", "", "mod">> >>

\* Rule (e), the positions of prep.head.children that the test of lines
\* 397-399 accepts.
BringUpHits(T, prep) ==
    LET prep_head == T[T[prep].head].children
    IN  {i \in DOMAIN prep_head :
            /\ StrIn(T[prep].dep_, T[prep_head[i]].dep_)
            /\ T[prep].orth_ = T[prep_head[i]].orth_
            /\ T[prep].idx = T[prep_head[i]].idx}

\* Rule (e), lines 404-407: pop position i of prep.head.children, append
\* prep to the focus, point its head at the focus, relabel it.
BringUpMove(T, token, prep, i, dep_new_) ==
    LET T1 == [T EXCEPT ![T[prep].head].children = Pop(@, i - 1)]
        T2 == [T1 EXCEPT ![token].children = Append(@, prep)]
        T3 == [T2 EXCEPT ![prep].head = token]
    IN  [T3 EXCEPT ![prep].dep_ = dep_new_]

\* Rule (e), the `while changed` loop of one child and one pattern.
RECURSIVE BringUpWhile(_, _, _, _, _, _)
BringUpWhile(T, ns, token, child, p, isApplied) ==
    LET prep == find_in_spacynode(T, child, bring_up[p][1], bring_up[p][2])
    IN  IF prep = NotFound THEN RuleResult(T, ns, isApplied, FALSE)
        ELSE LET hits == BringUpHits(T, prep)
             IN  IF hits = {} THEN RuleResult(T, ns, isApplied, FALSE)
                 ELSE LET i == CHOOSE x \in hits : \A y \in hits : x <= y
                      IN  BringUpWhile(BringUpMove(T, token, prep, i, bring_up[p][3]),
                                       BagAppend(ns, bring_up[p][3]),
                                       token, child, p, TRUE)

\* Rule (e), the loop over bring_up for one child.
RECURSIVE BringUpPatterns(_, _, _, _, _, _)
BringUpPatterns(T, ns, token, child, p, isApplied) ==
    IF p > Len(bring_up) THEN RuleResult(T, ns, isApplied, FALSE)
    ELSE LET r == BringUpWhile(T, ns, token, child, p, isApplied)
         IN  BringUpPatterns(r.tree, r.node_set, token, child, p + 1, r.isApplied)

\* Rule (e), the loop over spacy_tree.children: the list grows under the
\* loop and the loop reaches the appended children too.
RECURSIVE BringUpChildren(_, _, _, _, _)
BringUpChildren(T, ns, token, k, isApplied) ==
    IF k > Len(T[token].children) THEN RuleResult(T, ns, isApplied, FALSE)
    ELSE LET child == T[token].children[k]
         IN  IF StrIn("obj", T[child].dep_) \/ StrIn("subj", T[child].dep_)
             THEN LET r == BringUpPatterns(T, ns, token, child, 1, isApplied)
                  IN  BringUpChildren(r.tree, r.node_set, token, k + 1, r.isApplied)
             ELSE BringUpChildren(T, ns, token, k + 1, isApplied)

bring_grandchild_prep_or_relcl_up_as_child(T, ns, token) ==
    BringUpChildren(T, ns, token, 1, FALSE)

-----------------------------------------------------------------------------
(* Reduction *)

tags_to_be_removed == {"punct", "mark", " ", "", "meta"}

remove_duplicates(T, ns, token) == RuleResult(T, BagOfSet(DOMAIN ns), FALSE, FALSE)

\* remove_tags with the set difference taken the wrong way round.
remove_tags_Swapped(T, ns, token) ==
    LET hits == {c \in Range(T[token].children) : T[c].dep_ \in tags_to_be_removed}
    IN  RuleResult([n \in DOMAIN T |->
                       IF n \in hits THEN [T[n] EXCEPT !.nofollow = TRUE] ELSE T[n]],
                   BagOfSet(tags_to_be_removed \ DOMAIN ns),
                   hits /= {}, FALSE)

remove_tags(T, ns, token) ==
    LET hits == {c \in Range(T[token].children) : T[c].dep_ \in tags_to_be_removed}
    IN  RuleResult([n \in DOMAIN T |->
                       IF n \in hits THEN [T[n] EXCEPT !.nofollow = TRUE] ELSE T[n]],
                   BagOfSet(DOMAIN ns \ tags_to_be_removed),
                   hits /= {}, FALSE)

transform_tags(T, ns, token) == RuleResult(T, RewriteAll(ns), FALSE, FALSE)

\* MergeCollect without the re-scan: one pass, and the first child of the
\* group is the only one taken.
MergeCollect_NoRescan(T, token, group, this_group) ==
    LET found == WithLabelPart(T, token, group)
        i == CHOOSE x \in found : \A y \in found : x <= y
    IN  IF found = {} THEN [tree |-> T, this_group |-> this_group]
        ELSE [tree |-> [T EXCEPT ![token].children = Pop(@, i - 1)],
              this_group |-> Append(this_group, T[token].children[i])]

\* The merge rule, the `while changed` loop: take the first child of the
\* group out of the focus's children, until none is left.
RECURSIVE MergeCollect(_, _, _, _)
MergeCollect(T, token, group, this_group) ==
    LET found == WithLabelPart(T, token, group)
    IN  IF found = {} THEN [tree |-> T, this_group |-> this_group]
        ELSE LET i == CHOOSE x \in found : \A y \in found : x <= y
             IN  MergeCollect([T EXCEPT ![token].children = Pop(@, i - 1)],
                              token, group, Append(this_group, T[token].children[i]))

\* MergeGroup that appends the merged node and leaves its head unset.
MergeGroup_NoHead(T, token, group) ==
    IF Cardinality(WithLabelPart(T, token, group)) < 2
    THEN [tree |-> T, isApplied |-> FALSE]
    ELSE LET col == MergeCollect(T, token, group, << >>)
             m == merge_nodes(col.tree, col.this_group)
         IN  [tree |-> [m.tree EXCEPT ![token].children = Append(@, m.under)],
              isApplied |-> TRUE]

\* The merge rule, one group.
MergeGroup(T, token, group) ==
    IF Cardinality(WithLabelPart(T, token, group)) < 2
    THEN [tree |-> T, isApplied |-> FALSE]
    ELSE LET col == MergeCollect(T, token, group, << >>)
             m == merge_nodes(col.tree, col.this_group)
             T1 == [m.tree EXCEPT ![token].children = Append(@, m.under)]
         IN  [tree |-> [T1 EXCEPT ![m.under].head = token], isApplied |-> TRUE]

merge_multiple_subj_or_dobj(T, ns, token) ==
    LET s == MergeGroup(T, token, "subj")
        o == MergeGroup(s.tree, token, "obj")
    IN  RuleResult(o.tree, ns, s.isApplied \/ o.isApplied, FALSE)

-----------------------------------------------------------------------------
(* The sentences the runs start from *)

Word(dep, pos, orth) == [dep_ |-> dep, pos_ |-> pos, orth_ |-> orth]

\* The words a node that is neither the root nor the focus may be.
Words ==
    { Word("nsubj", "NOUN", "method"),  Word("nsubj", "DET", "that"),
      Word("dobj", "NOUN", "method"),   Word("conj", "VERB", "helps"),
      Word("cc", "CCONJ", "but"),       Word("xcomp", "VERB", "helps"),
      Word("ccomp", "VERB", "helps"),   Word("prep", "ADP", "in"),
      Word("prep", "ADP", "by"),        Word("relcl", "VERB", "helps"),
      Word("punct", "PUNCT", ","),      Word("conj", "VERB", "improves"),
      Word("nsubjpass", "PROPN", "GeckoFTL") }

\* The labels the focus may carry when it has a head.
FocusLabels == {"relcl", "ccomp", "conj"}

\* The parse: node 1 is the root and its own head, every other node hangs
\* under an earlier one; idx is the position in the sentence, children are
\* in sentence order, and the counts are those of the children.
ParseTree(n, parent, f, flabel, w) ==
    [i \in 1..n |->
        LET kids == {c \in 2..n : parent[c] = i}
            word == IF i = f THEN Word(IF i = 1 THEN "ROOT" ELSE flabel, "VERB", "improves")
                    ELSE IF i = 1 THEN Word("ROOT", "VERB", "helps")
                    ELSE w[i]
        IN  [TreeNode(word.dep_, word.pos_, word.orth_, i,
                      Cardinality({c \in kids : c < i}),
                      Cardinality({c \in kids : c > i}))
                EXCEPT !.children = SortedSeq(kids), !.head = parent[i]]]

\* The tree shapes on n nodes: parent vectors.
Shapes(n) == {p \in [1..n -> 1..n] : p[1] = 1 /\ \A i \in 2..n : p[i] < i}

\* A parsed sentence of at most MaxNodes words and a focus token in it.
Parsed(T, f) ==
    \E n \in 1..MaxNodes : \E g \in 1..n :
        \E parent \in Shapes(n), flabel \in (IF g = 1 THEN {"ROOT"} ELSE FocusLabels),
           w \in [(1..n) \ {1, g} -> Words] :
            /\ T = ParseTree(n, parent, g, flabel, w)
            /\ f = g

\* get_node_representation with the format "dep_": the labels of the
\* children of the token, none when both counts are zero.
get_node_representation(T, token) ==
    IF T[token].n_lefts + T[token].n_rights > 0
    THEN BagOfSeq([k \in DOMAIN T[token].children |-> T[T[token].children[k]].dep_])
    ELSE EmptyBag

-----------------------------------------------------------------------------
(* The rule application framework and the pipeline *)

GrowthRules ==
    << "replace_subj_if_dep_is_relcl_or_ccomp",
       "recurse_on_dep_conj_if_no_subj",
       "transform_xcomp_to_dobj_or_sub_if_doesnt_exists",
       "transform_prep_in_to_dobj",
       "bring_grandchild_prep_or_relcl_up_as_child" >>

ReductionRules ==
    << "remove_duplicates", "remove_tags", "transform_tags",
       "merge_multiple_subj_or_dobj" >>

\* What the history keeps of one rule run.
Ran(name, r) == [rule |-> name, isApplied |-> r.isApplied, raised |-> r.raised]

\* One rule of Growth.apply: the rule runs once; its name goes to the log
\* when it reports a change; an exception leaves the run.
GrowthStep(k, r) ==
    /\ pc = GrowthRules[k]
    /\ before' = [tree |-> nodes, node_set |-> node_set]
    /\ history' = Append(history, Ran(GrowthRules[k], r))
    /\ nodes' = r.tree
    /\ node_set' = r.node_set
    /\ applied_growth' = IF r.isApplied /\ ~r.raised
                         THEN Append(applied_growth, GrowthRules[k]) ELSE applied_growth
    /\ pc' = IF r.raised THEN "raised"
             ELSE IF k < Len(GrowthRules) THEN GrowthRules[k + 1]
             ELSE ReductionRules[1]
    /\ returned' = IF k = Len(GrowthRules) /\ ~r.raised
                   THEN Append(returned, r.node_set) ELSE returned
    /\ UNCHANGED <<focus, applied_reduction, applied, pass, probe>>

\* One rule of Reduction.apply; `runs` is the number of times the caller
\* runs the Reduction rule set.
ReductionStep(k, r, runs) ==
    /\ pc = ReductionRules[k]
    /\ before' = [tree |-> nodes, node_set |-> node_set]
    /\ history' = Append(history, Ran(ReductionRules[k], r))
    /\ nodes' = r.tree
    /\ node_set' = r.node_set
    /\ applied_reduction' = IF r.isApplied /\ ~r.raised
                            THEN Append(applied_reduction, ReductionRules[k])
                            ELSE applied_reduction
    /\ pass' = IF k = Len(ReductionRules) /\ ~r.raised THEN pass + 1 ELSE pass
    /\ pc' = IF r.raised THEN "raised"
             ELSE IF k < Len(ReductionRules) THEN ReductionRules[k + 1]
             ELSE IF pass + 1 < runs THEN ReductionRules[1]
             ELSE "return"
    /\ returned' = IF k = Len(ReductionRules) /\ ~r.raised
                   THEN Append(returned, r.node_set) ELSE returned
    /\ UNCHANGED <<focus, applied_growth, applied, probe>>

ReplaceSubj ==
    GrowthStep(1, replace_subj_if_dep_is_relcl_or_ccomp(nodes, node_set, focus))
RecurseOnConj ==
    GrowthStep(2, recurse_on_dep_conj_if_no_subj(nodes, node_set, focus))
TransformXcomp ==
    GrowthStep(3, transform_xcomp_to_dobj_or_sub_if_doesnt_exists(nodes, node_set, focus))
TransformPrepIn ==
    GrowthStep(4, transform_prep_in_to_dobj(nodes, node_set, focus))
BringGrandchildUp ==
    GrowthStep(5, bring_grandchild_prep_or_relcl_up_as_child(nodes, node_set, focus))

RemoveDuplicates(runs) == ReductionStep(1, remove_duplicates(nodes, node_set, focus), runs)
RemoveTags(runs) == ReductionStep(2, remove_tags(nodes, node_set, focus), runs)
TransformTags(runs) == ReductionStep(3, transform_tags(nodes, node_set, focus), runs)
MergeMultiple(runs) == ReductionStep(4, merge_multiple_subj_or_dobj(nodes, node_set, focus), runs)

\* Return with the two logs the other way round.
Return_Swapped ==
    /\ pc = "return"
    /\ applied' = applied_reduction \o applied_growth
    /\ pc' = "done"
    /\ UNCHANGED <<nodes, focus, node_set, applied_growth, applied_reduction,
                   returned, pass, before, history, probe>>

\* Process.applyAll, its return: the two logs, concatenated.
Return ==
    /\ pc = "return"
    /\ applied' = applied_growth \o applied_reduction
    /\ pc' = "done"
    /\ UNCHANGED <<nodes, focus, node_set, applied_growth, applied_reduction,
                   returned, pass, before, history, probe>>

NoProbe == [op |-> "none"]

Init ==
    /\ Parsed(nodes, focus)
    /\ node_set = get_node_representation(nodes, focus)
    /\ pc = GrowthRules[1]
    /\ applied_growth = << >>
    /\ applied_reduction = << >>
    /\ applied = << >>
    /\ returned = << >>
    /\ pass = 0
    /\ before = [tree |-> nodes, node_set |-> node_set]
    /\ history = << >>
    /\ probe = NoProbe

Next ==
    \/ ReplaceSubj
    \/ RecurseOnConj
    \/ TransformXcomp
    \/ TransformPrepIn
    \/ BringGrandchildUp
    \/ RemoveDuplicates(1)
    \/ RemoveTags(1)
    \/ TransformTags(1)
    \/ MergeMultiple(1)
    \/ Return

Spec == Init /\ [][Next]_vars

-----------------------------------------------------------------------------
(* Reduction run twice on a tree and a label collection of its own *)

\* The words of the children of the focus in these runs.
ReductionWords ==
    { Word("nsubj", "NOUN", "method"), Word("nsubjpass", "PROPN", "GeckoFTL"),
      Word("dobj", "NOUN", "method"),  Word("punct", "PUNCT", ",") }

\* The labels an initial collection is drawn from.
InitialLabels ==
    {"nsubj", "csubjpass", "dobj", "subj", "obj", "punct", "", "prep", "mod", "conj"}

InitTwice ==
    /\ \E n \in 1..MaxNodes : \E w \in [2..n -> ReductionWords] :
           nodes = ParseTree(n, [i \in 1..n |-> 1], 1, "ROOT", w)
    /\ focus = 1
    /\ \E k \in 0..MaxLabels : \E labels \in [1..k -> InitialLabels] :
           node_set = BagOfSeq(labels)
    /\ pc = ReductionRules[1]
    /\ applied_growth = << >>
    /\ applied_reduction = << >>
    /\ applied = << >>
    /\ returned = << >>
    /\ pass = 0
    /\ before = [tree |-> nodes, node_set |-> node_set]
    /\ history = << >>
    /\ probe = NoProbe

NextTwice ==
    \/ RemoveDuplicates(2)
    \/ RemoveTags(2)
    \/ TransformTags(2)
    \/ MergeMultiple(2)

SpecTwice == InitTwice /\ [][NextTwice]_vars

-----------------------------------------------------------------------------
(* find_in_spacynode on its own *)

\* The filters of the calls: the patterns of rule (e), the label and text of
\* a focus as rule (b) passes them, a label family, a text.
FindFilters ==
    { <<bring_up[p][1], bring_up[p][2]>> : p \in DOMAIN bring_up }
        \cup { <<"conj", "improves">>, <<"conj", "helps">>, <<"subj", "">>,
               <<"obj", "">>, <<"", "helps">>, <<"", "method">> }

InitFind ==
    /\ Parsed(nodes, focus)
    /\ node_set = EmptyBag
    /\ pc = "probe"
    /\ applied_growth = << >>
    /\ applied_reduction = << >>
    /\ applied = << >>
    /\ returned = << >>
    /\ pass = 0
    /\ before = [tree |-> nodes, node_set |-> node_set]
    /\ history = << >>
    /\ probe = NoProbe

\* find_in_spacynode(node, dep, orth), called on the focus.
Find ==
    /\ pc = "probe"
    /\ \E filter \in FindFilters :
           probe' = [op |-> "find", node |-> focus, dep |-> filter[1], orth |-> filter[2],
                     result |-> find_in_spacynode(nodes, focus, filter[1], filter[2])]
    /\ pc' = "probed"
    /\ UNCHANGED <<nodes, focus, node_set, applied_growth, applied_reduction,
                   applied, returned, pass, before, history>>

NextFind == Find

SpecFind == InitFind /\ [][NextFind]_vars

-----------------------------------------------------------------------------
(* merge_nodes on its own *)

\* The lexical indices and the child counts of the nodes handed to merge_nodes.
Indices == {0, 2, 5, 6, 9}
Counts == {0, 1}

\* The nodes handed to merge_nodes, in the order of the list: any labels,
\* distinct indices in any order, any counts.
InitMerge ==
    /\ \E m \in 1..MaxMembers :
         \E dep \in [1..m -> {"nsubj", "dobj"}], idx \in [1..m -> Indices],
            n_lefts \in [1..m -> Counts], n_rights \in [1..m -> Counts] :
            /\ \A i \in 1..m : \A j \in 1..m : i /= j => idx[i] /= idx[j]
            /\ nodes = [i \in 1..m |->
                          TreeNode(dep[i], "NOUN", "method", idx[i], n_lefts[i], n_rights[i])]
    /\ focus = 0
    /\ node_set = EmptyBag
    /\ pc = "probe"
    /\ applied_growth = << >>
    /\ applied_reduction = << >>
    /\ applied = << >>
    /\ returned = << >>
    /\ pass = 0
    /\ before = [tree |-> nodes, node_set |-> node_set]
    /\ history = << >>
    /\ probe = NoProbe

\* merge_nodes(nodes), with no parent given, on the whole list.
Merge ==
    /\ pc = "probe"
    /\ LET members == [i \in 1..Cardinality(DOMAIN nodes) |-> i]
           m == merge_nodes(nodes, members)
       IN  /\ nodes' = m.tree
           /\ probe' = [op |-> "merge", members |-> members, under |-> m.under]
    /\ pc' = "probed"
    /\ UNCHANGED <<focus, node_set, applied_growth, applied_reduction,
                   applied, returned, pass, before, history>>

NextMerge == Merge

SpecMerge == InitMerge /\ [][NextMerge]_vars

-----------------------------------------------------------------------------
(* Shapes of a tree, and the last rule run *)

\* The last rule run, with what it reported.
Last == history[Len(history)]

\* The last rule run was `name` and it returned.
Returned(name) ==
    /\ history /= << >>
    /\ Last.rule = name
    /\ ~Last.raised

\* The last rule run was `name`, it returned and it reported a change.
Fired(name) == Returned(name) /\ Last.isApplied

IsRoot(T, n) == T[n].head = n

\* The nodes whose children list holds n, once per position.
Holders(T, n) == {h \in (DOMAIN T) \X (1..(Cardinality(DOMAIN T) + 1)) :
                     h[2] \in DOMAIN T[h[1]].children /\ T[h[1]].children[h[2]] = n}

\* Every non-root node is in exactly one children list, its head's.
Consistent(T) ==
    \A n \in DOMAIN T :
        ~IsRoot(T, n) =>
            /\ Cardinality(Holders(T, n)) = 1
            /\ T[n].head \in DOMAIN T
            /\ n \in Range(T[T[n].head].children)

RuleA == GrowthRules[1]
RuleB == GrowthRules[2]
RuleC == GrowthRules[3]
RuleD == GrowthRules[4]
RuleE == GrowthRules[5]
MergeRule == ReductionRules[4]

-----------------------------------------------------------------------------
(* C1 *)

\* C1: every rule that moves a node (rule (a), rule (b), rule (e), the merge
\* rule) preserves parent/child consistency: if every non-root node was in
\* exactly one children list, its head's, before the rule, then so it is
\* after the rule.
C1_MovePreservesConsistency ==
    \A name \in {RuleA, RuleB, RuleE, MergeRule} :
        (Returned(name) /\ Consistent(before.tree)) => Consistent(nodes)

-----------------------------------------------------------------------------
(* C2 *)

\* Following head references from n reaches a root in at most `fuel` steps.
RECURSIVE ClimbsToRoot(_, _, _)
ClimbsToRoot(T, n, fuel) ==
    IF n \notin DOMAIN T THEN FALSE
    ELSE IF IsRoot(T, n) THEN TRUE
    ELSE IF fuel = 0 THEN FALSE
    ELSE ClimbsToRoot(T, T[n].head, fuel - 1)

\* The nodes reachable from `frontier` through children lists.
RECURSIVE Below(_, _, _)
Below(T, frontier, seen) ==
    IF frontier \subseteq seen THEN seen
    ELSE Below(T, UNION {Range(T[n].children) : n \in frontier \ seen}, seen \cup frontier)

\* The nodes still part of the tree: the roots and whatever a children list holds.
PartOfTree(T) ==
    {n \in DOMAIN T : IsRoot(T, n) \/ \E p \in DOMAIN T : n \in Range(T[p].children)}

ConnectedAcyclic(T) ==
    /\ \A n \in DOMAIN T : ClimbsToRoot(T, n, Cardinality(DOMAIN T))
    /\ PartOfTree(T) \subseteq Below(T, {n \in DOMAIN T : IsRoot(T, n)}, {})

\* C2: after every Growth and Reduction rule the tree is connected and
\* acyclic: head references lead from every node to the root without a
\* repeat, and every node still in the tree is reachable from the root
\* through children lists.
C2_StaysConnectedAcyclic ==
    (history /= << >> /\ ~Last.raised /\ ConnectedAcyclic(before.tree))
        => ConnectedAcyclic(nodes)

-----------------------------------------------------------------------------
(* C3 *)

\* The number of direct children of node n whose label contains `part`.
FamilyCount(T, n, part) == Cardinality(WithLabelPart(T, n, part))

\* C3: after the merge rule the focus has at most one direct child whose
\* label contains "subj" and at most one whose label contains "obj".
C3_AtMostOnePerFamily ==
    Returned(MergeRule) =>
        /\ FamilyCount(nodes, focus, "subj") <= 1
        /\ FamilyCount(nodes, focus, "obj") <= 1

\* The merge rule ran on a focus that had three children of one family.
C3_Witness ==
    /\ Fired(MergeRule)
    /\ \E g \in {"subj", "obj"} : FamilyCount(before.tree, focus, g) >= 3
    /\ FamilyCount(nodes, focus, "subj") + FamilyCount(nodes, focus, "obj") >= 1

-----------------------------------------------------------------------------
(* C4 *)

\* C4: Reduction is idempotent on the relation-label set: the second run of
\* the four rules returns the label set the first run returned.
C4_ReductionIdempotent ==
    pass = 2 => DOMAIN returned[2] = DOMAIN returned[1]

\* Two runs are done, the first of which dropped a label, canonicalized one
\* and merged children.
C4_Witness ==
    /\ pass = 2
    /\ "subj" \in DOMAIN returned[1]
    /\ \E i \in 1..4 : history[i].rule = MergeRule /\ history[i].isApplied
    /\ \E i \in 1..4 : history[i].rule = "remove_tags" /\ history[i].isApplied
    /\ Len(history) = 8

-----------------------------------------------------------------------------
(* C5 *)

\* The nodes of the subtree of `node`, the node first, then each child's
\* subtree in turn, left to right; `depth` bounds the descent.
RECURSIVE Preorder(_, _, _)
RECURSIVE PreorderOfList(_, _, _)
Preorder(T, node, depth) ==
    IF depth = 0 THEN <<node>>
    ELSE <<node>> \o PreorderOfList(T, T[node].children, depth - 1)
PreorderOfList(T, list, depth) ==
    IF list = << >> THEN << >>
    ELSE Preorder(T, Head(list), depth) \o PreorderOfList(T, Tail(list), depth)

\* C5: find_in_spacynode returns the first node of the pre-order of the
\* subtree that satisfies the filters, and False exactly when none does.
C5_FindFirstPreorder ==
    probe.op = "find" =>
        LET order == Preorder(nodes, probe.node, Cardinality(DOMAIN nodes))
            hits == {i \in DOMAIN order : FindMatches(nodes, order[i], probe.dep, probe.orth)}
        IN  IF hits = {} THEN probe.result = NotFound
            ELSE /\ probe.result /= NotFound
                 /\ probe.result = order[CHOOSE i \in hits : \A j \in hits : i <= j]

\* A search with two matches at different depths, the deeper one first in
\* pre-order, which is the one returned.
C5_Witness ==
    /\ probe.op = "find"
    /\ LET order == Preorder(nodes, probe.node, Cardinality(DOMAIN nodes))
           hits == {i \in DOMAIN order : FindMatches(nodes, order[i], probe.dep, probe.orth)}
       IN  /\ Cardinality(hits) >= 2
           /\ probe.result /= NotFound
           /\ nodes[probe.result].head /= probe.node
           /\ \E i \in hits : nodes[order[i]].head = probe.node

-----------------------------------------------------------------------------
(* C6 *)

\* C6: merge_nodes on a non-empty list, no parent given, returns a new
\* parent whose index is the floor of the average of the members' indices,
\* whose counts are the sums of the members' counts, whose label is the
\* first member's, whose children are the members in input order; every
\* member's head is that parent.
C6_MergeNodes ==
    probe.op = "merge" =>
        LET ms == probe.members
            u == probe.under
            old == before.tree
            sum(field) == SumField(old, ms, field)
        IN  /\ u \notin DOMAIN old
            /\ nodes[u].idx * Len(ms) <= sum("idx")
            /\ sum("idx") < (nodes[u].idx + 1) * Len(ms)
            /\ nodes[u].n_lefts = sum("n_lefts")
            /\ nodes[u].n_rights = sum("n_rights")
            /\ nodes[u].dep_ = old[ms[1]].dep_
            /\ nodes[u].children = ms
            /\ \A i \in DOMAIN ms : nodes[ms[i]].head = u

\* Three nodes were merged whose indices do not average to a whole number
\* and whose first label differs from the last.
C6_Witness ==
    /\ probe.op = "merge"
    /\ Len(probe.members) = 3
    /\ SumField(before.tree, probe.members, "idx") % 3 /= 0
    /\ before.tree[probe.members[1]].dep_ /= before.tree[probe.members[3]].dep_
    /\ nodes[probe.under].n_lefts = 2

-----------------------------------------------------------------------------
(* C7 *)

\* C7: when rule (a) fires, the former head of the focus carries the label
\* "nsubj", is a direct child of the focus with the focus as its head, the
\* focus is no longer among the former head's children, and "nsubj" has
\* been appended to the relation-label collection.
C7_InversionOutcome ==
    Fired(RuleA) =>
        LET former == before.tree[focus].head
        IN  /\ before.tree[focus].dep_ \in {"relcl", "ccomp"}
            /\ former /= focus
            /\ nodes[former].dep_ = "nsubj"
            /\ Cardinality({k \in DOMAIN nodes[focus].children :
                               nodes[focus].children[k] = former}) = 1
            /\ nodes[former].head = focus
            /\ focus \notin Range(nodes[former].children)
            /\ node_set = BagAppend(before.node_set, "nsubj")

\* Rule (a) fired on a focus whose only subject was a determiner: the
\* subject was evicted and the head, which had other children, inverted.
C7_Witness ==
    /\ Fired(RuleA)
    /\ \E c \in Range(before.tree[focus].children) :
           before.tree[c].dep_ \in subs /\ c \notin Range(nodes[focus].children)
    /\ Len(before.tree[before.tree[focus].head].children) >= 2

-----------------------------------------------------------------------------
(* C8 *)

\* The children of node n whose label contains `part`, in the order of the
\* children list.
RECURSIVE FamilyOf(_, _, _)
FamilyOf(T, list, part) ==
    IF list = << >> THEN << >>
    ELSE IF StrIn(part, T[Head(list)].dep_)
    THEN <<Head(list)>> \o FamilyOf(T, Tail(list), part)
    ELSE FamilyOf(T, Tail(list), part)

\* C8: when the focus has two or more direct children of one family, after
\* the merge rule exactly one child of that family remains under the focus;
\* it is a synthetic node whose children are the former direct children of
\* that family in their original order, each with the synthetic node as
\* head, and the head of the synthetic node is the focus.
C8_MergedGroup ==
    Returned(MergeRule) =>
        \A g \in {"subj", "obj"} :
            LET former == FamilyOf(before.tree, before.tree[focus].children, g)
                now == FamilyOf(nodes, nodes[focus].children, g)
            IN  Len(former) >= 2 =>
                    /\ Len(now) = 1
                    /\ now[1] \notin DOMAIN before.tree
                    /\ nodes[now[1]].children = former
                    /\ \A i \in DOMAIN former : nodes[former[i]].head = now[1]
                    /\ nodes[now[1]].head = focus

\* The merge rule ran on a focus with two subjects that were not next to
\* each other in its children list.
C8_Witness ==
    /\ Fired(MergeRule)
    /\ LET kids == before.tree[focus].children
       IN  /\ Len(kids) = 3
           /\ StrIn("subj", before.tree[kids[1]].dep_)
           /\ ~StrIn("subj", before.tree[kids[2]].dep_)
           /\ StrIn("subj", before.tree[kids[3]].dep_)
    /\ Len(nodes[focus].children) = 2

-----------------------------------------------------------------------------
(* C9 *)

AllRules == GrowthRules \o ReductionRules

\* The names of the rules run so far, in the order they ran.
RulesRun == [i \in DOMAIN history |-> history[i].rule]

\* C9: the five Growth rules run once each, in order, before the first of
\* the four Reduction rules, which run once each in order; the log returned
\* is the Growth log followed by the Reduction log, so that no Reduction
\* rule's name precedes a Growth rule's.
C9_GrowthThenReduction ==
    /\ Len(history) <= Len(AllRules)
    /\ RulesRun = SubSeq(AllRules, 1, Len(history))
    /\ pc = "done" =>
        /\ RulesRun = AllRules
        /\ applied = applied_growth \o applied_reduction
        /\ \A i \in DOMAIN applied : \A j \in DOMAIN applied :
               (i < j /\ applied[i] \in Range(ReductionRules))
                   => applied[j] \notin Range(GrowthRules)

\* A run returned a log that names a Growth rule and a Reduction rule.
C9_Witness ==
    /\ pc = "done"
    /\ \E i \in DOMAIN applied : applied[i] \in Range(GrowthRules)
    /\ \E i \in DOMAIN applied : applied[i] \in Range(ReductionRules)

-----------------------------------------------------------------------------
(* C10 *)

\* C10: every rule that changes the tree reports a change and so is in the
\* log; a rule that is not in the log left the tree as it found it.
C10_LogRecordsEveryChange ==
    (history /= << >> /\ nodes /= before.tree)
        => Last.rule \in Range(applied_growth \o applied_reduction)

\* The same, of the rules that returned.
C10_ReturnedRulesAreLogged ==
    (history /= << >> /\ ~Last.raised /\ nodes /= before.tree)
        => Last.rule \in Range(applied_growth \o applied_reduction)

-----------------------------------------------------------------------------
(* C11 *)

\* C11: on every well-formed tree the loops of rule (b), rule (e) and the
\* merge rule end, so that the whole pipeline eventually returns: a run
\* that has not returned has a next step to take.
C11_PipelineReturns == pc = "done" \/ ENABLED Next

-----------------------------------------------------------------------------
(* C12 *)

\* C12: on a connected, acyclic, single-root tree no Growth or Reduction
\* rule raises an error.
C12_NoRuleRaises == pc /= "raised"

\* Rule (a) is the one rule that raises.
C12_OnlyInversionRaises == pc = "raised" => Last.rule = RuleA

-----------------------------------------------------------------------------
(* C13 *)

\* A tree that breaks the contract: a parsed sentence in which the head
\* reference of one node other than the root was re-pointed at a node that
\* does not hold it.
Malformed(T, f) ==
    \E n \in 2..MaxNodes : \E g \in 1..n :
        \E parent \in Shapes(n), flabel \in (IF g = 1 THEN {"ROOT"} ELSE FocusLabels),
           w \in [(1..n) \ {1, g} -> Words] :
            \E c \in 2..n : \E h \in (1..n) \ {c, parent[c]} :
                /\ T = [ParseTree(n, parent, g, flabel, w) EXCEPT ![c].head = h]
                /\ f = g

\* Rule (a) or rule (e), called on a malformed tree.
InitMalformed ==
    /\ Malformed(nodes, focus)
    /\ node_set = get_node_representation(nodes, focus)
    /\ pc \in {GrowthRules[1], GrowthRules[5]}
    /\ applied_growth = << >>
    /\ applied_reduction = << >>
    /\ applied = << >>
    /\ returned = << >>
    /\ pass = 0
    /\ before = [tree |-> nodes, node_set |-> node_set]
    /\ history = << >>
    /\ probe = NoProbe

NextMalformed ==
    \/ ReplaceSubj
    \/ BringGrandchildUp

SpecMalformed == InitMalformed /\ [][NextMalformed]_vars

\* Rule (e) on tree T finds, at its first successful search, a node that the
\* children list of its head does not hold.
HoistMeetsMismatch(T, token) ==
    LET kids == T[token].children
        searched(k) == StrIn("obj", T[kids[k]].dep_) \/ StrIn("subj", T[kids[k]].dep_)
        found(k, p) == find_in_spacynode(T, kids[k], bring_up[p][1], bring_up[p][2])
    IN  \E k \in DOMAIN kids : \E p \in DOMAIN bring_up :
            /\ searched(k)
            /\ found(k, p) /= NotFound
            /\ found(k, p) \notin Range(T[T[found(k, p)].head].children)
            /\ \A k2 \in DOMAIN kids : \A p2 \in DOMAIN bring_up :
                   (k2 < k \/ (k2 = k /\ p2 < p))
                       => (~searched(k2) \/ found(k2, p2) = NotFound)

\* Rule (a) on tree T goes on to invert a focus that the children list of
\* its head does not hold.
InversionMeetsMismatch(T, token) ==
    /\ T[token].dep_ \in {"relcl", "ccomp"}
    /\ T[token].head /= token
    /\ token \notin Range(T[T[token].head].children)
    /\ LET scan == ReplaceSubjScan(T, token, T[token].children, 1, FALSE, FALSE)
       IN  ~scan.raised /\ (scan.anyChanging \/ ~scan.hasSubj)

\* C13: a rule about to move a node whose head is not the node that holds
\* it fails fast with an error; it never goes on silently.
C13_MismatchFailsFast ==
    /\ (history /= << >> /\ Last.rule = RuleE /\ HoistMeetsMismatch(before.tree, focus))
           => Last.raised
    /\ (history /= << >> /\ Last.rule = RuleA /\ InversionMeetsMismatch(before.tree, focus))
           => Last.raised

-----------------------------------------------------------------------------
(* C14 *)

\* The labels of a collection, canonicalized through the tag table.
Canonical(labels) == {rewrite_dp_tag(x) : x \in labels}

\* The label collection ns holds, up to the tag table, the labels of the
\* direct children of node f, no more and no less.
Tracks(T, ns, f) ==
    Canonical(DOMAIN ns) = Canonical({T[c].dep_ : c \in Range(T[f].children)})

\* C14: the label collection starts as the labels of the focus's direct
\* children, and after each Growth rule its canonicalized labels are the
\* canonicalized labels of the focus's direct children at that point.
C14_LabelsTrackChildren ==
    (/\ history /= << >>
     /\ Last.rule \in Range(GrowthRules)
     /\ ~Last.raised
     /\ Tracks(before.tree, before.node_set, focus))
        => Tracks(nodes, node_set, focus)

-----------------------------------------------------------------------------
(* C15 *)

\* Every node of T has no children exactly when both its counts are zero.
LeafnessAgrees(T) ==
    \A n \in DOMAIN T : (T[n].children = << >>) <=> (T[n].n_lefts + T[n].n_rights = 0)

\* C15: leafness agrees with the stored counts on input, and after every
\* Growth and Reduction rule it still does, for every node of the tree.
C15_LeafnessAgreesWithCounts ==
    (history /= << >> /\ ~Last.raised /\ LeafnessAgrees(before.tree))
        => LeafnessAgrees(nodes)

-----------------------------------------------------------------------------
(* C16 *)

\* The trigger of rule (a) on tree T: the focus is a relcl or a ccomp and
\* has a head other than itself.
InversionTrigger(T, token) ==
    T[token].dep_ \in {"relcl", "ccomp"} /\ T[token].head /= token

\* The children the focus had before the last rule and still has, that are
\* subject-family and open-class: the valid subjects that remain.
ValidSubjectsLeft ==
    {c \in Range(before.tree[focus].children) \cap Range(nodes[focus].children) :
        StrIn("subj", before.tree[c].dep_) /\ before.tree[c].pos_ \in OpenClass}

\* C16: when the trigger of rule (a) holds, the head is relabelled and moved
\* under the focus if and only if no valid subject remains after eviction;
\* if an open-class subject-family child remains, the head keeps its label
\* and its position.
C16_InvertsIffNoValidSubject ==
    (Returned(RuleA) /\ InversionTrigger(before.tree, focus)) =>
        LET former == before.tree[focus].head
        IN  IF ValidSubjectsLeft = {}
            THEN /\ nodes[former].dep_ = downwards_subj
                 /\ former \in Range(nodes[focus].children)
                 /\ nodes[former].head = focus
            ELSE /\ nodes[former] = before.tree[former]
                 /\ former \notin Range(nodes[focus].children)

-----------------------------------------------------------------------------
(* C17 *)

\* The most children of the focus in the runs of rule (a) on its own.
MaxChildren == 3

\* Rule (a) on its own: a root, the focus under it, and up to MaxChildren
\* words under the focus.
InitEvict ==
    /\ \E m \in 0..MaxChildren : \E flabel \in {"relcl", "ccomp"} :
         \E w \in [3..(m + 2) -> Words] :
            nodes = ParseTree(m + 2, [i \in 1..(m + 2) |-> IF i <= 2 THEN 1 ELSE 2],
                              2, flabel, w)
    /\ focus = 2
    /\ node_set = get_node_representation(nodes, focus)
    /\ pc = GrowthRules[1]
    /\ applied_growth = << >>
    /\ applied_reduction = << >>
    /\ applied = << >>
    /\ returned = << >>
    /\ pass = 0
    /\ before = [tree |-> nodes, node_set |-> node_set]
    /\ history = << >>
    /\ probe = NoProbe

NextEvict == ReplaceSubj

SpecEvict == InitEvict /\ [][NextEvict]_vars

\* The children the focus had before the last rule and has no more.
Evicted == Range(before.tree[focus].children) \ Range(nodes[focus].children)

\* C17: rule (a) evicts only subject-family children whose part of speech is
\* outside the open-class list: no child with another label and no
\* open-class child is removed, wherever the evicted children stand.
C17_EvictsOnlyClosedClassSubjects ==
    (history /= << >> /\ Last.rule = RuleA) =>
        \A c \in Evicted :
            /\ StrIn("subj", before.tree[c].dep_)
            /\ before.tree[c].pos_ \notin OpenClass

\* No open-class child is ever evicted.
C17_OpenClassStays ==
    (history /= << >> /\ Last.rule = RuleA) =>
        \A c \in Evicted : before.tree[c].pos_ \notin OpenClass

-----------------------------------------------------------------------------
(* C18 *)

\* Rule (b) pulled child i of node up down to the focus: the candidate left
\* up's children, is the last child of the focus and has the focus as head;
\* its label is "nsubj" when it matched as an object-family child or as
\* another conj, and is unchanged when it matched as a subject-family child;
\* that label was appended to the label collection.
PulledDown(up, i) ==
    LET old == before.tree
        cand == old[up].children[i]
        asSubject == old[cand].dep_ \in subs
        asObject == old[cand].dep_ \in objs
        asOtherConj == old[cand].dep_ = "conj" /\ cand /= focus
        label == IF asObject \/ asOtherConj THEN "nsubj" ELSE old[cand].dep_
    IN  /\ ConjMatches(old, focus, up, i)
        /\ asSubject \/ asObject \/ asOtherConj
        /\ nodes[up].children = Pop(old[up].children, i - 1)
        /\ cand \notin Range(nodes[up].children)
        /\ nodes[focus].children = Append(old[focus].children, cand)
        /\ nodes[cand].head = focus
        /\ nodes[cand].dep_ = label
        /\ asSubject => nodes[cand].dep_ = old[cand].dep_
        /\ node_set = BagAppend(before.node_set, label)

\* C18: when rule (b) pulls a candidate down, the candidate is removed from
\* the scanned head's children, appended to the focus's children with the
\* focus as head, labelled "nsubj" in cases ii and iii and left with its
\* label in cases i and iv, and the resulting label is appended to the
\* label collection.
C18_PullDownOutcome ==
    Fired(RuleB) =>
        \E up \in DOMAIN before.tree : \E i \in DOMAIN before.tree[up].children :
            PulledDown(up, i)

\* Rule (b) pulled down a candidate that was another conj of a head with a
\* "but", and relabelled it.
C18_Witness ==
    /\ Fired(RuleB)
    /\ \E up \in DOMAIN before.tree : \E i \in DOMAIN before.tree[up].children :
           /\ PulledDown(up, i)
           /\ ConjCond(before.tree, focus, up, i).cond_conj_other
           /\ before.tree[before.tree[up].children[i]].dep_ = "conj"
           /\ nodes[before.tree[up].children[i]].dep_ = "nsubj"

-----------------------------------------------------------------------------
(* C19 *)

\* The most words of a sentence in the runs of rule (b)'s loop on its own.
MaxChain == 3

\* The words of the trees rule (b) walks in the runs of its loop on its own.
WalkWords ==
    { Word("conj", "VERB", "helps"), Word("cc", "CCONJ", "but"),
      Word("nsubj", "NOUN", "method"), Word("dobj", "NOUN", "method"),
      Word("prep", "ADP", "by") }

\* Rule (b) is entered with a conj focus, on a parsed sentence or on one in
\* which the head reference of a node other than the root was re-pointed, so
\* that the chain of heads above the focus may be cyclic.
InitWalk ==
    /\ \E n \in 2..MaxChain : \E g \in 2..n :
         \E parent \in Shapes(n), w \in [(1..n) \ {1, g} -> WalkWords] :
            \E c \in 2..n : \E h \in (1..n) \ {c} :
                /\ nodes = [ParseTree(n, parent, g, "conj", w) EXCEPT ![c].head = h]
                /\ focus = g
    /\ node_set = get_node_representation(nodes, focus)
    /\ pc = GrowthRules[2]
    /\ applied_growth = << >>
    /\ applied_reduction = << >>
    /\ applied = << >>
    /\ returned = << >>
    /\ pass = 0
    /\ before = [tree |-> nodes, node_set |-> node_set]
    /\ history = << >>
    /\ probe = [op |-> "walk", token_head |-> focus, isApplied |-> FALSE]

\* What one turn of the loop leaves behind; the loop goes on.
WalkTurn(turn) ==
    /\ nodes' = turn.tree
    /\ node_set' = turn.node_set
    /\ probe' = [probe EXCEPT !.token_head = turn.token_head,
                              !.isApplied = turn.isApplied]
    /\ UNCHANGED <<pc, history>>

\* One pass through the body of the `while True` loop of rule (b): a turn
\* when the trigger holds, the `else: break` and the return of the rule when
\* it does not.
Walk ==
    /\ pc = GrowthRules[2]
    /\ IF ConjTrigger(nodes, focus, probe.token_head)
       THEN WalkTurn(ConjIteration(nodes, node_set, focus,
                                   probe.token_head, probe.isApplied))
       ELSE /\ history' = Append(history,
                                 Ran(GrowthRules[2],
                                     RuleResult(nodes, node_set, probe.isApplied, FALSE)))
            /\ pc' = GrowthRules[3]
            /\ UNCHANGED <<nodes, node_set, probe>>
    /\ UNCHANGED <<focus, applied_growth, applied_reduction, applied,
                   returned, pass, before>>

\* The loop is sequential code: it keeps passing through its body until it
\* breaks.
SpecWalk == InitWalk /\ [][Walk]_vars /\ WF_vars(Walk)

\* C19: the loop of rule (b) terminates for every input, a tree with a
\* cyclic chain of heads included.
C19_WalkTerminates == <>(pc /= GrowthRules[2])

\* Taken turn by turn, the loop ends where rule (b) as a whole ends.
C19_TurnsMakeTheRule ==
    Returned(RuleB) =>
        LET r == recurse_on_dep_conj_if_no_subj(before.tree, before.node_set, focus)
        IN  /\ ConnectedAcyclic(before.tree) => (nodes = r.tree /\ node_set = r.node_set)
            /\ ConnectedAcyclic(before.tree) => (Last.isApplied = r.isApplied)

-----------------------------------------------------------------------------
(* C20 *)

\* Rule (c): the tree at the moment the loop over move_if takes up pair k,
\* the pairs before it having acted on tree T.
RECURSIVE TreeAtPair(_, _, _)
TreeAtPair(T, token, k) ==
    IF k = 1 THEN T
    ELSE LET P == TreeAtPair(T, token, k - 1)
             replace == move_if[k - 1][1]
             target == move_if[k - 1][2]
             is_obj == WithLabelPart(P, token, target) /= {}
             found == WithLabelPart(P, token, replace)
         IN  IF is_obj \/ found = {} THEN P
             ELSE LET i == CHOOSE x \in found : \A y \in found : x <= y
                  IN  [P EXCEPT ![P[token].children[i]].dep_ = target]

\* Pair k of rule (c) relabelled a child of the focus.
PairRelabels(T, token, k) == TreeAtPair(T, token, k + 1) /= TreeAtPair(T, token, k)

\* C20: a pair of rule (c) relabels a child of the focus only when, at that
\* moment, the focus has no child of the target family and exactly one child
\* of the source label; with two or more such children it relabels none.
C20_RelabelsOnlyTheOnlySource ==
    Returned(RuleC) =>
        \A k \in DOMAIN move_if :
            PairRelabels(before.tree, focus, k) =>
                LET P == TreeAtPair(before.tree, focus, k)
                IN  /\ WithLabelPart(P, focus, move_if[k][2]) = {}
                    /\ Cardinality(WithLabelPart(P, focus, move_if[k][1])) = 1

\* The part of C20 the code keeps: a pair relabels only when the focus has
\* no child of the target family at that moment, and then one child only.
C20_RelabelsOnlyWithoutTarget ==
    Returned(RuleC) =>
        /\ nodes = TreeAtPair(before.tree, focus, Len(move_if) + 1)
        /\ \A k \in DOMAIN move_if :
              PairRelabels(before.tree, focus, k) =>
                  LET P == TreeAtPair(before.tree, focus, k)
                      Q == TreeAtPair(before.tree, focus, k + 1)
                  IN  /\ WithLabelPart(P, focus, move_if[k][2]) = {}
                      /\ Cardinality({n \in DOMAIN P : P[n] /= Q[n]}) = 1

-----------------------------------------------------------------------------
(* C21 *)

\* The nodes whose label rule (d) changed in its last run.
Relabelled == {n \in DOMAIN nodes : nodes[n].dep_ /= before.tree[n].dep_}

\* C21: rule (d) relabels a child only if the focus had no child of the
\* object family and the child is a direct prepositional child whose text is
\* "in", and it relabels at most one child in one run.
C21_RelabelsAtMostOnePrepIn ==
    Returned(RuleD) =>
        /\ Relabelled /= {} => WithLabelPart(before.tree, focus, "obj") = {}
        /\ \A n \in Relabelled :
              /\ \E i \in WithLabelPart(before.tree, focus, "prep") :
                     before.tree[focus].children[i] = n
              /\ before.tree[n].orth_ = "in"
              /\ nodes[n].dep_ = "obj"
        /\ Cardinality(Relabelled) <= 1

\* The part of C21 the code keeps: what rule (d) relabels is a prepositional
\* child "in" of a focus that had no child of the object family.
C21_RelabelsOnlyPrepIn ==
    Returned(RuleD) =>
        /\ Relabelled /= {} => WithLabelPart(before.tree, focus, "obj") = {}
        /\ \A n \in Relabelled :
              /\ \E i \in WithLabelPart(before.tree, focus, "prep") :
                     before.tree[focus].children[i] = n
              /\ before.tree[n].orth_ = "in"
              /\ nodes[n].dep_ = "obj"

-----------------------------------------------------------------------------
(* C22 *)

\* Node n of tree T matches pattern p of rule (e), as the search tests it.
MatchesPattern(T, n, p) ==
    /\ StrIn(bring_up[p][1], T[n].dep_)
    /\ bring_up[p][2] /= "" => T[n].orth_ = bring_up[p][2]

\* The direct children of the focus that rule (e) searches: those of the
\* subject and of the object family.
ArgChildren(T, f) ==
    {c \in Range(T[f].children) : StrIn("obj", T[c].dep_) \/ StrIn("subj", T[c].dep_)}

\* The nodes in the subtrees of the searched children that match a pattern.
MatchingBelowArgs(T, f) ==
    {n \in UNION {Below(T, {c}, {}) : c \in ArgChildren(T, f)} :
        \E p \in DOMAIN bring_up : MatchesPattern(T, n, p)}

\* Node n, which matched a pattern before the rule, now hangs under the
\* focus with the new label of a pattern it matched.
Hoisted(n) ==
    /\ n \in Range(nodes[focus].children)
    /\ nodes[n].head = focus
    /\ \E p \in DOMAIN bring_up :
          MatchesPattern(before.tree, n, p) /\ nodes[n].dep_ = bring_up[p][3]

\* C22: after rule (e) on a well-formed tree no subject or object child of
\* the focus has a node matching a pattern in its subtree, and every node
\* that matched is a direct child of the focus, its head the focus, its
\* label "prep" or "mod".
C22_MatchesAreFlattened ==
    (Returned(RuleE) /\ Consistent(before.tree) /\ ConnectedAcyclic(before.tree)) =>
        /\ MatchingBelowArgs(nodes, focus) = {}
        /\ \A n \in MatchingBelowArgs(before.tree, focus) : Hoisted(n)

\* The first half of C22 alone.
C22_NoMatchLeftBelowArgs ==
    (Returned(RuleE) /\ Consistent(before.tree) /\ ConnectedAcyclic(before.tree)) =>
        MatchingBelowArgs(nodes, focus) = {}

\* What the code keeps of the second half: every node rule (e) put under
\* the focus had matched a pattern below a searched child, and has the
\* focus for head and the new label of the pattern.
C22_NewChildrenWereMatches ==
    (Returned(RuleE) /\ Consistent(before.tree) /\ ConnectedAcyclic(before.tree)) =>
        \A n \in Range(nodes[focus].children) \ Range(before.tree[focus].children) :
            n \in MatchingBelowArgs(before.tree, focus) /\ Hoisted(n)

-----------------------------------------------------------------------------
(* C23 *)

\* The nodes that hold n in their children lists.
Parents(T, n) == {h \in DOMAIN T : n \in Range(T[h].children)}

\* The nodes the last rule moved: their head reference or the nodes that
\* hold them changed.
Moved ==
    {n \in DOMAIN nodes :
        \/ nodes[n].head /= before.tree[n].head
        \/ Parents(nodes, n) /= Parents(before.tree, n)}

\* The most words of a sentence in the runs of rule (b) on its own: enough
\* for two conj ancestors that each offer a candidate.
MaxPull == 5

\* The words of the sentences rule (b) is run on by itself.
PullWords ==
    { Word("conj", "VERB", "helps"), Word("cc", "CCONJ", "but"),
      Word("nsubj", "NOUN", "method"), Word("dobj", "NOUN", "method") }

\* Rule (b) is entered on a parsed sentence with a conj focus.
InitPull ==
    /\ \E n \in 2..MaxPull : \E g \in 2..n :
         \E parent \in Shapes(n), w \in [(1..n) \ {1, g} -> PullWords] :
            /\ nodes = ParseTree(n, parent, g, "conj", w)
            /\ focus = g
    /\ node_set = get_node_representation(nodes, focus)
    /\ pc = GrowthRules[2]
    /\ applied_growth = << >>
    /\ applied_reduction = << >>
    /\ applied = << >>
    /\ returned = << >>
    /\ pass = 0
    /\ before = [tree |-> nodes, node_set |-> node_set]
    /\ history = << >>
    /\ probe = NoProbe

NextPull == RecurseOnConj

SpecPull == InitPull /\ [][NextPull]_vars

\* The conj ancestors of the focus that the walk of rule (b) on tree T can
\* scan and that hold a child matching one of the four conditions.
RECURSIVE Offers(_, _, _)
Offers(T, token, token_head) ==
    IF T[token_head].dep_ = "conj" /\ T[token_head].head /= token_head
    THEN LET up == T[token_head].head
         IN  (IF \E i \in DOMAIN T[up].children : ConjMatches(T, token, up, i)
              THEN {up} ELSE {}) \cup Offers(T, token, up)
    ELSE {}

\* C23: one run of rule (b) moves at most one node, however many conj
\* ancestors it walks; the node it pulls down ends with a label of the
\* subject list, under the focus, so that the focus has a subject child when
\* the trigger is evaluated next; no other node is relabelled.
C23_MovesAtMostOneNode ==
    Returned(RuleB) =>
        /\ Cardinality(Moved) <= 1
        /\ \A n \in Moved :
              /\ nodes[n].dep_ \in subs
              /\ n \in Range(nodes[focus].children)
        /\ \A n \in DOMAIN nodes : nodes[n].dep_ /= before.tree[n].dep_ => n \in Moved
        /\ Len(nodes[focus].children) <= Len(before.tree[focus].children) + 1
        /\ Last.isApplied =>
              \E k \in DOMAIN nodes[focus].children :
                  nodes[nodes[focus].children[k]].dep_ \in subs

\* Two conj ancestors of the focus each offered a candidate; rule (b)
\* pulled one node down, from the nearer of the two, and stopped.
C23_Witness ==
    /\ Fired(RuleB)
    /\ Cardinality(Offers(before.tree, focus, focus)) >= 2
    /\ Cardinality(Moved) = 1
    /\ \A n \in Moved :
          /\ before.tree[n].head = before.tree[focus].head
          /\ nodes[n].head = focus

-----------------------------------------------------------------------------
(* C24 *)

\* C24: rule (b) never pulls down the focus or an ancestor of the focus:
\* the candidate it chooses among the children of the scanned head does not
\* have the focus in its subtree.
C24_NeverPullsAnAncestor ==
    Returned(RuleB) =>
        \A n \in Moved : focus \notin Below(before.tree, {n}, {})

\* Rule (b) pulled a node down from a head that also held an ancestor of
\* the focus, a conj beside a "but" that the search for the focus below it
\* alone kept from being the candidate.
C24_Witness ==
    /\ Fired(RuleB)
    /\ \E n \in Moved :
          LET up == before.tree[n].head
          IN  \E i \in DOMAIN before.tree[up].children :
                 LET c == before.tree[up].children[i]
                 IN  /\ c /= n
                     /\ c /= focus
                     /\ focus \in Below(before.tree, {c}, {})
                     /\ ConjCond_NoSubChildTest(before.tree, focus, up, i).cond_conj_other
                     /\ ~ConjMatches(before.tree, focus, up, i)

=============================================================================
